---- MODULE Spec2Model ----
(***************************************************************************)
(* The JIT operator registry of torch/csrc/jit/operator.cpp.               *)
(*                                                                         *)
(* Operator objects live on the heap `ops` (one make_shared per accepted   *)
(* registration); an operator is identified by its index on the heap, so   *)
(* reference equality is equality of indices and a smaller index means an  *)
(* earlier registration.  The heap keeps the schema of an operator, the    *)
(* only part the registry reads.  Strings are sequences of tokens.         *)
(***************************************************************************)
EXTENDS Integers, Sequences, FiniteSets, TLC

VARIABLES
    ops,                      \* heap of Operator objects, in order of creation
    to_register,              \* OperatorRegistry::to_register
    operators,                \* OperatorRegistry::operators (Symbol -> bucket)
    operators_order,          \* the order in which `operators` is iterated
    operators_by_sig,         \* OperatorRegistry::operators_by_sig
    operators_by_sig_literal, \* OperatorRegistry::operators_by_sig_literal
    scan,                     \* per thread: the bucket findOperatorFor iterates
    last,                     \* the call that completed last, with its outcome
    first_hit                 \* history: per literal, the first operator returned

vars == <<ops, to_register, operators, operators_order, operators_by_sig,
          operators_by_sig_literal, scan, last, first_hit>>

-----------------------------------------------------------------------------
(* Bounds of the model *)

MaxOps == 2

\* the operators registered in the behaviours that enumerate the registry
MaxEnumerated == 3

\* the arguments of the schemas whose canonical strings are examined
MaxArgs == 3

NumThreads == 2

Threads == 1..NumThreads

-----------------------------------------------------------------------------
(* Symbols and the two exemption tables *)

Sym(ns, unqual) == [ns |-> ns, unqual |-> unqual]

\* Symbol::fromQualString applied to a schema name <<ns, "::", unqual>>
fromQualString(name) == Sym(name[1], name[3])

\* Symbol::toQualString
toQualString(sym) == <<sym.ns, "::", sym.unqual>>

printer_handled ==
    { Sym("prim", u) : u \in
        {"Constant", "Uninitialized", "fork", "ListConstruct", "DictConstruct",
         "ListUnpack", "Print", "PythonOp", "TupleConstruct", "TupleIndex",
         "TupleSlice", "TupleUnpack", "CreateObject", "GetAttr", "SetAttr",
         "CallFunction", "isinstance", "unchecked_cast"} }

printer_unneeded ==
    { Sym("onnx", "Reshape"), Sym("onnx", "Shape") } \cup
    { Sym("prim", u) : u \in
        {"AutogradZero", "AutogradAnyNonZero", "AutogradAdd", "ConstantChunk",
         "DifferentiableGraph", "BroadcastSizes", "ChunkSizes", "Drop",
         "FusedConcat", "FusionGroup", "Load", "MMTreeReduce", "MMBatchSide",
         "Store", "profile"} }

required_namespaces == {"prim", "aten", "onnx"}

printerHasSpecialCaseFor(sym) ==
    \/ sym \in printer_handled
    \/ sym \in printer_unneeded
    \/ sym.ns \notin required_namespaces

alias_handled ==
    { Sym("aten", "wait") } \cup
    { Sym("prim", u) : u \in
        {"If", "Loop", "FusionGroup", "DifferentiableGraph", "Constant",
         "Uninitialized", "DictConstruct", "ListConstruct", "TupleConstruct",
         "AutogradZero", "FusedConcat", "GradOf", "MMTreeReduce", "MMBatchSide",
         "BroadcastSizes", "ChunkSizes", "Function", "TupleUnpack", "TupleIndex",
         "TupleSlice", "ListUnpack", "PythonOp", "ConstantChunk",
         "BroadcastingChunk", "fork", "CreateObject", "AutogradAdd", "GetAttr",
         "SetAttr", "profile", "Print", "CallFunction", "CallMethod",
         "isinstance", "unchecked_cast"} }

alias_purposefully_not_handled ==
    { Sym("onnx", "Reshape"), Sym("onnx", "Shape") } \cup
    { Sym("prim", u) : u \in {"Load", "Store", "Drop", "AutogradAdd"} }

aliasAnalysisHasSpecialCaseFor(sym) ==
    sym \in alias_handled \/ sym \in alias_purposefully_not_handled

-----------------------------------------------------------------------------
(* Schemas and their canonical strings *)

Arg(type, name, kwarg_only) ==
    [type |-> type, name |-> name, kwarg_only |-> kwarg_only]

Schema(name, overload_name, arguments, returns, is_varret) ==
    [name |-> name, overload_name |-> overload_name, arguments |-> arguments,
     returns |-> returns, is_varret |-> is_varret]

RECURSIVE canonicalArguments_StarEach(_, _, _)
canonicalArguments_StarEach(arguments, i, seen_kwarg_only) ==
    IF i > Len(arguments) THEN <<>>
    ELSE LET arg == arguments[i]
         IN  (IF i > 1 THEN <<", ">> ELSE <<>>)
             \o (IF arg.kwarg_only THEN <<"*, ">> ELSE <<>>)
             \o <<arg.type, " ", arg.name>>
             \o canonicalArguments_StarEach(arguments, i + 1, seen_kwarg_only)

RECURSIVE canonicalArguments(_, _, _)
canonicalArguments(arguments, i, seen_kwarg_only) ==
    IF i > Len(arguments) THEN <<>>
    ELSE LET arg    == arguments[i]
             star   == arg.kwarg_only /\ ~seen_kwarg_only
         IN  (IF i > 1 THEN <<", ">> ELSE <<>>)
             \o (IF star THEN <<"*, ">> ELSE <<>>)
             \o <<arg.type, " ", arg.name>>
             \o canonicalArguments(arguments, i + 1, seen_kwarg_only \/ star)

RECURSIVE canonicalReturns(_, _)
canonicalReturns(returns, i) ==
    IF i > Len(returns) THEN <<>>
    ELSE (IF i > 1 THEN <<", ">> ELSE <<>>)
         \o <<returns[i]>>
         \o canonicalReturns(returns, i + 1)

canonicalSchemaString(schema) ==
    schema.name \o <<"(">>
    \o canonicalArguments(schema.arguments, 1, FALSE)
    \o <<") -> ">>
    \o (IF Len(schema.returns) = 1 THEN <<schema.returns[1]>>
        ELSE IF Len(schema.returns) > 1
             THEN <<"(">> \o canonicalReturns(schema.returns, 1) \o <<")">>
             ELSE <<>>)

-----------------------------------------------------------------------------
(* The schema parser (torch/csrc/jit/script/function_schema_parser), on the *)
(* token form of a signature text.  A result is [ok, schema].              *)

NoSchema == Schema(<<>>, "", <<>>, <<>>, FALSE)

Punctuation == {"::", "(", ")", ") -> ", ", ", "*, ", " "}

\* position of the first ") -> " token, 0 when there is none
RECURSIVE arrowPosition(_, _)
arrowPosition(text, i) ==
    IF i > Len(text) THEN 0
    ELSE IF text[i] = ") -> " THEN i
    ELSE arrowPosition(text, i + 1)

RECURSIVE parseArguments(_, _)
parseArguments(toks, kwarg_only) ==
    IF toks = <<>> THEN [ok |-> TRUE, args |-> <<>>]
    ELSE IF toks[1] = "*, "
    THEN IF kwarg_only \/ Len(toks) = 1 THEN [ok |-> FALSE, args |-> <<>>]
         ELSE parseArguments(Tail(toks), TRUE)
    ELSE IF Len(toks) >= 3 /\ toks[2] = " "
            /\ toks[1] \notin Punctuation /\ toks[3] \notin Punctuation
    THEN LET arg == Arg(toks[1], toks[3], kwarg_only)
         IN  IF Len(toks) = 3 THEN [ok |-> TRUE, args |-> <<arg>>]
             ELSE IF toks[4] = ", " /\ Len(toks) > 4
             THEN LET rest == parseArguments(SubSeq(toks, 5, Len(toks)), kwarg_only)
                  IN  [ok |-> rest.ok, args |-> <<arg>> \o rest.args]
             ELSE [ok |-> FALSE, args |-> <<>>]
    ELSE [ok |-> FALSE, args |-> <<>>]

RECURSIVE parseReturnList(_)
parseReturnList(toks) ==
    IF Len(toks) = 0 \/ toks[1] \in Punctuation THEN [ok |-> FALSE, rets |-> <<>>]
    ELSE IF Len(toks) = 1 THEN [ok |-> TRUE, rets |-> toks]
    ELSE IF toks[2] = ", "
    THEN LET rest == parseReturnList(SubSeq(toks, 3, Len(toks)))
         IN  [ok |-> rest.ok, rets |-> <<toks[1]>> \o rest.rets]
    ELSE [ok |-> FALSE, rets |-> <<>>]

parseReturns(toks) ==
    IF toks = <<>> THEN [ok |-> TRUE, rets |-> <<>>]
    ELSE IF Len(toks) = 1
    THEN [ok |-> toks[1] \notin Punctuation, rets |-> toks]
    ELSE IF toks[1] = "(" /\ toks[Len(toks)] = ")"
    THEN parseReturnList(SubSeq(toks, 2, Len(toks) - 1))
    ELSE [ok |-> FALSE, rets |-> <<>>]

parseSchema(text) ==
    LET p == arrowPosition(text, 1)
    IN  IF Len(text) >= 5 /\ text[2] = "::" /\ text[4] = "(" /\ p >= 5
           /\ text[1] \notin Punctuation /\ text[3] \notin Punctuation
        THEN LET a == parseArguments(SubSeq(text, 5, p - 1), FALSE)
                 r == parseReturns(SubSeq(text, p + 1, Len(text)))
             IN  IF a.ok /\ r.ok
                 THEN [ok |-> TRUE,
                       schema |-> Schema(SubSeq(text, 1, 3), "", a.args, r.rets, FALSE)]
                 ELSE [ok |-> FALSE, schema |-> NoSchema]
        ELSE [ok |-> FALSE, schema |-> NoSchema]

-----------------------------------------------------------------------------
(* Inputs: the operators that callers register and the literals they pass *)

AliasAnalysisKinds == {"CONSERVATIVE", "FROM_SCHEMA", "INTERNAL_SPECIAL_CASE"}

Operator(schema, kind) == [schema |-> schema, aliasAnalysisKind |-> kind]

AddName == <<"aten", "::", "add">>

TensorAdd ==
    Schema(AddName, "",
           <<Arg("Tensor", "self", FALSE), Arg("Tensor", "other", FALSE)>>,
           <<"Tensor">>, FALSE)

ScalarAdd ==
    Schema(AddName, "Scalar",
           <<Arg("Tensor", "self", FALSE), Arg("Scalar", "other", FALSE)>>,
           <<"Tensor">>, FALSE)

\* differs from TensorAdd in the overload name only
TensorAddOut == [TensorAdd EXCEPT !.overload_name = "out"]

Addr ==
    Schema(<<"aten", "::", "addr">>, "",
           <<Arg("Tensor", "self", FALSE), Arg("Scalar", "alpha", TRUE)>>,
           <<"Tensor">>, FALSE)

SchematizedOperators ==
    { Operator(TensorAdd, "FROM_SCHEMA"),
      Operator(ScalarAdd, "FROM_SCHEMA"),
      Operator(TensorAddOut, "CONSERVATIVE"),
      Operator(Addr, "INTERNAL_SPECIAL_CASE") }

VarretSymbols ==
    { Sym("prim", "Constant"),            \* printer: handled,  alias: handled
      Sym("prim", "If"),                  \* printer: absent,   alias: handled
      Sym("aten", "add"),                 \* printer: absent,   alias: absent
      Sym("custom", "op") }               \* no required namespace, alias: absent

VarretOperators ==
    { Operator(Schema(toQualString(s), "", <<>>, <<>>, TRUE), k) :
        s \in VarretSymbols, k \in AliasAnalysisKinds }

OperatorInputs == SchematizedOperators \cup VarretOperators

\* the symbols that callers ask getAllOperatorsFor about
QuerySymbols == { Sym("aten", "add"), Sym("custom", "op"), Sym("aten", "mul") }

\* the symbols that callers ask findSimilarOperators about
TargetSymbols ==
    { Sym("aten", "add"), Sym("aten", "addx"), Sym("notaten", "add"),
      Sym("aten", "mul"), Sym("aten", "ad") }

\* the c10::OperatorName values that callers pass to findOperatorFor
OperatorNames ==
    { [name |-> AddName, overload_name |-> ""],
      [name |-> AddName, overload_name |-> "Scalar"],
      [name |-> <<"aten", "::", "mul">>, overload_name |-> ""] }

\* addresses of string literals, and the text stored at each address
Literals == {"L1", "L2", "L3", "L4", "L5"}

LiteralText(name) ==
    CASE name = "L1" -> canonicalSchemaString(TensorAdd)
      [] name = "L2" -> canonicalSchemaString(TensorAdd)
      [] name = "L3" -> <<"aten", "::", "addr", "(", "Tensor", " ", "self", ", ",
                          "*, ", "Scalar", " ", "alpha", ") -> ", "Tensor">>
      [] name = "L4" -> <<"aten", "::", "mul", "(", "Tensor", " ", "self",
                          ") -> ", "Tensor">>
      [] name = "L5" -> <<"aten", "::", "add", "(", "Tensor", ") -> ", "Tensor">>


-----------------------------------------------------------------------------
(* script::ComputeEditDistance on the qualified strings of two symbols *)

\* the characters of the name parts that occur in the inputs
Spell(part) ==
    CASE part = "::"       -> <<":", ":">>
      [] part = "aten"     -> <<"a", "t", "e", "n">>
      [] part = "notaten"  -> <<"n", "o", "t", "a", "t", "e", "n">>
      [] part = "prim"     -> <<"p", "r", "i", "m">>
      [] part = "custom"   -> <<"c", "u", "s", "t", "o", "m">>
      [] part = "ad"       -> <<"a", "d">>
      [] part = "add"      -> <<"a", "d", "d">>
      [] part = "addr"     -> <<"a", "d", "d", "r">>
      [] part = "addx"     -> <<"a", "d", "d", "x">>
      [] part = "mul"      -> <<"m", "u", "l">>
      [] part = "op"       -> <<"o", "p">>
      [] part = "If"       -> <<"I", "f">>
      [] part = "Constant" -> <<"C", "o", "n", "s", "t", "a", "n", "t">>

\* the characters of a qualified string
Characters(qual_string) ==
    Spell(qual_string[1]) \o Spell(qual_string[2]) \o Spell(qual_string[3])

Min(a, b) == IF a <= b THEN a ELSE b

\* one row of the dynamic program: row is the row built so far (row[1] is
\* column 0), old the previous row, for the character c of the first word
RECURSIVE editRow(_, _, _, _, _)
editRow(row, old, c, word2, x) ==
    IF x > Len(word2) THEN row
    ELSE LET cell == Min(old[x] + (IF c = word2[x] THEN 0 ELSE 1),
                         Min(row[x], old[x + 1]) + 1)
         IN  editRow(Append(row, cell), old, c, word2, x + 1)

RECURSIVE minOfRow(_, _)
minOfRow(row, i) ==
    IF i = Len(row) THEN row[i] ELSE Min(row[i], minOfRow(row, i + 1))

RECURSIVE editRows(_, _, _, _, _)
editRows(old, word1, word2, y, maxEditDistance) ==
    IF y > Len(word1) THEN old[Len(word2) + 1]
    ELSE LET row == editRow(<<y>>, old, word1[y], word2, 1)
             best_this_row == minOfRow(row, 1)
         IN  IF best_this_row > maxEditDistance /\ maxEditDistance > 0
             THEN maxEditDistance + 1
             ELSE editRows(row, word1, word2, y + 1, maxEditDistance)

\* the edit distance of two words, or maxEditDistance + 1 as soon as a whole
\* row of the table exceeds maxEditDistance
ComputeEditDistance(word1, word2, maxEditDistance) ==
    editRows([x \in 1..(Len(word2) + 1) |-> x - 1], word1, word2, 1,
             maxEditDistance)

MAX_EDIT_DIST == 2

-----------------------------------------------------------------------------
(* The registry *)

Put(f, k, v) == [x \in DOMAIN f \cup {k} |-> IF x = k THEN v ELSE f[x]]

Empty == [x \in {} |-> 0]

pushBack_Front(bucket, op) == <<op>> \o bucket

pushBack_Replace(bucket, op) == <<op>>

\* operators[sym].push_back(op)
pushBack(bucket, op) == Append(bucket, op)

assignBySig_KeepFirst(by_sig, sig, op) ==
    IF sig \in DOMAIN by_sig THEN by_sig ELSE Put(by_sig, sig, op)

\* operators_by_sig[sig] = op
assignBySig(by_sig, sig, op) == Put(by_sig, sig, op)

\* the loop of registerPendingOperators over queue[i..], on the two indices
RECURSIVE indexPending(_, _, _, _, _)
indexPending(heap, queue, i, by_sym, by_sig) ==
    IF i > Len(queue) THEN [operators |-> by_sym, operators_by_sig |-> by_sig]
    ELSE LET op     == queue[i]
             sym    == fromQualString(heap[op].schema.name)
             bucket == IF sym \in DOMAIN by_sym THEN by_sym[sym] ELSE <<>>
         IN  indexPending(heap, queue, i + 1,
                          Put(by_sym, sym, pushBack(bucket, op)),
                          assignBySig(by_sig,
                                      canonicalSchemaString(heap[op].schema), op))

registerPendingOperators_KeepQueue(heap, queue, by_sym, by_sig) ==
    LET r == indexPending(heap, queue, 1, by_sym, by_sig)
    IN  [operators |-> r.operators, operators_by_sig |-> r.operators_by_sig,
         to_register |-> queue]

\* OperatorRegistry::registerPendingOperators: the three fields it leaves
registerPendingOperators(heap, queue, by_sym, by_sig) ==
    LET r == indexPending(heap, queue, 1, by_sym, by_sig)
    IN  [operators |-> r.operators, operators_by_sig |-> r.operators_by_sig,
         to_register |-> <<>>]

Flushed == registerPendingOperators(ops, to_register, operators, operators_by_sig)

registerOperatorCheck_NoPrinter(op) ==
    IF op.schema.is_varret
    THEN LET s == fromQualString(op.schema.name)
         IN  IF ~aliasAnalysisHasSpecialCaseFor(s)
                /\ op.aliasAnalysisKind = "CONSERVATIVE"
             THEN "missing_alias_case"
             ELSE IF aliasAnalysisHasSpecialCaseFor(s)
                     /\ op.aliasAnalysisKind = "FROM_SCHEMA"
             THEN "explicit_alias_on_special_case"
             ELSE "ok"
    ELSE "ok"

registerOperatorCheck_NoExplicit(op) ==
    IF op.schema.is_varret
    THEN LET s == fromQualString(op.schema.name)
         IN  IF ~printerHasSpecialCaseFor(s) THEN "missing_printer_case"
             ELSE IF ~aliasAnalysisHasSpecialCaseFor(s)
                     /\ op.aliasAnalysisKind = "CONSERVATIVE"
             THEN "missing_alias_case"
             ELSE "ok"
    ELSE "ok"

registerOperatorCheck_Always(op) ==
    LET s == fromQualString(op.schema.name)
    IN  IF ~printerHasSpecialCaseFor(s) THEN "missing_printer_case"
        ELSE IF ~aliasAnalysisHasSpecialCaseFor(s)
                /\ op.aliasAnalysisKind = "CONSERVATIVE"
        THEN "missing_alias_case"
        ELSE IF aliasAnalysisHasSpecialCaseFor(s)
                /\ op.aliasAnalysisKind = "FROM_SCHEMA"
        THEN "explicit_alias_on_special_case"
        ELSE "ok"

\* the checks of the free function registerOperator, before it enqueues:
\* "ok", or the AT_ERROR that is raised
registerOperatorCheck(op) ==
    IF op.schema.is_varret
    THEN LET s == fromQualString(op.schema.name)
         IN  IF ~printerHasSpecialCaseFor(s) THEN "missing_printer_case"
             ELSE IF ~aliasAnalysisHasSpecialCaseFor(s)
                     /\ op.aliasAnalysisKind = "CONSERVATIVE"
             THEN "missing_alias_case"
             ELSE IF aliasAnalysisHasSpecialCaseFor(s)
                     /\ op.aliasAnalysisKind = "FROM_SCHEMA"
             THEN "explicit_alias_on_special_case"
             ELSE "ok"
    ELSE "ok"

\* the linear scan of findOperatorFor over a bucket; 0 is nullptr
RECURSIVE scanBucket(_, _, _, _)
scanBucket(heap, bucket, i, overload_name) ==
    IF i > Len(bucket) THEN 0
    ELSE IF heap[bucket[i]].schema.overload_name = overload_name THEN bucket[i]
    ELSE scanBucket(heap, bucket, i + 1, overload_name)

\* what OperatorRegistry::getOperators returns: a reference to the bucket of
\* name in `operators`, or to its function-local static empty vector
getOperatorsRef(by_sym, name) ==
    IF name \in DOMAIN by_sym
    THEN [in_map |-> TRUE, value |-> by_sym[name]]
    ELSE [in_map |-> FALSE, value |-> <<>>]

lookupByLiteral_NoEmplace(cache, by_sig, name) ==
    IF name \in DOMAIN cache
    THEN [outcome |-> "ok", result |-> cache[name], cache |-> cache,
          parser_called |-> FALSE, by_sig_searched |-> FALSE]
    ELSE LET parsed == parseSchema(LiteralText(name))
             sig    == canonicalSchemaString(parsed.schema)
         IN  IF ~parsed.ok
             THEN [outcome |-> "parse_error", result |-> 0, cache |-> cache,
                   parser_called |-> TRUE, by_sig_searched |-> FALSE]
             ELSE IF sig \notin DOMAIN by_sig
             THEN [outcome |-> "operator_not_found", result |-> 0,
                   cache |-> cache,
                   parser_called |-> TRUE, by_sig_searched |-> TRUE]
             ELSE [outcome |-> "ok", result |-> by_sig[sig],
                   cache |-> cache,
                   parser_called |-> TRUE, by_sig_searched |-> TRUE]

lookupByLiteral_EmplaceEarly(cache, by_sig, name) ==
    IF name \in DOMAIN cache
    THEN [outcome |-> "ok", result |-> cache[name], cache |-> cache,
          parser_called |-> FALSE, by_sig_searched |-> FALSE]
    ELSE LET parsed == parseSchema(LiteralText(name))
             sig    == canonicalSchemaString(parsed.schema)
         IN  IF ~parsed.ok
             THEN [outcome |-> "parse_error", result |-> 0, cache |-> cache,
                   parser_called |-> TRUE, by_sig_searched |-> FALSE]
             ELSE IF sig \notin DOMAIN by_sig
             THEN [outcome |-> "operator_not_found", result |-> 0,
                   cache |-> Put(cache, name, 0),
                   parser_called |-> TRUE, by_sig_searched |-> TRUE]
             ELSE [outcome |-> "ok", result |-> by_sig[sig],
                   cache |-> Put(cache, name, by_sig[sig]),
                   parser_called |-> TRUE, by_sig_searched |-> TRUE]

\* OperatorRegistry::lookupByLiteral after the flush: the outcome ("ok", the
\* exception of parseSchema, or the failed TORCH_CHECK), the operator
\* returned, the cache it leaves, and what it called on the way
lookupByLiteral(cache, by_sig, name) ==
    IF name \in DOMAIN cache
    THEN [outcome |-> "ok", result |-> cache[name], cache |-> cache,
          parser_called |-> FALSE, by_sig_searched |-> FALSE]
    ELSE LET parsed == parseSchema(LiteralText(name))
             sig    == canonicalSchemaString(parsed.schema)
         IN  IF ~parsed.ok
             THEN [outcome |-> "parse_error", result |-> 0, cache |-> cache,
                   parser_called |-> TRUE, by_sig_searched |-> FALSE]
             ELSE IF sig \notin DOMAIN by_sig
             THEN [outcome |-> "operator_not_found", result |-> 0,
                   cache |-> cache,
                   parser_called |-> TRUE, by_sig_searched |-> TRUE]
             ELSE [outcome |-> "ok", result |-> by_sig[sig],
                   cache |-> Put(cache, name, by_sig[sig]),
                   parser_called |-> TRUE, by_sig_searched |-> TRUE]

concatBuckets_ByRegistration(by_sym, order, i) == [k \in 1..Len(ops) |-> k]

\* the values of getAllOperators: the buckets in the order of iteration
RECURSIVE concatBuckets(_, _, _)
concatBuckets(by_sym, order, i) ==
    IF i > Len(order) THEN <<>>
    ELSE by_sym[order[i]] \o concatBuckets(by_sym, order, i + 1)

cmp_Less(lhs, rhs) == lhs[1] < rhs[1]

\* the comparison of the priority queue of findSimilarOperators
cmp(lhs, rhs) == lhs[1] > rhs[1]

\* std::push_heap: value sifts up from hole while its parent compares before it
RECURSIVE siftUp(_, _, _)
siftUp(heap, hole, value) ==
    IF hole > 1 /\ cmp(heap[hole \div 2], value)
    THEN siftUp([heap EXCEPT ![hole] = heap[hole \div 2]], hole \div 2, value)
    ELSE [heap EXCEPT ![hole] = value]

\* rankings.emplace(edit_dist, symbol)
heapPush(heap, value) == siftUp(Append(heap, value), Len(heap) + 1, value)

\* std::pop_heap on the first len entries: the hole left by the top moves down
\* to a leaf along the children that compare last
RECURSIVE siftDown(_, _, _)
siftDown(heap, hole, len) ==
    IF 2 * hole + 1 <= len
    THEN LET child == IF cmp(heap[2 * hole + 1], heap[2 * hole])
                      THEN 2 * hole ELSE 2 * hole + 1
         IN  siftDown([heap EXCEPT ![hole] = heap[child]], child, len)
    ELSE IF 2 * hole = len
    THEN [heap |-> [heap EXCEPT ![hole] = heap[2 * hole]], hole |-> 2 * hole]
    ELSE [heap |-> heap, hole |-> hole]

\* rankings.pop()
heapPop(heap) ==
    LET len == Len(heap) - 1
    IN  IF len = 0 THEN <<>>
        ELSE LET d == siftDown(SubSeq(heap, 1, len), 1, len)
             IN  siftUp(d.heap, d.hole, heap[len + 1])

\* script::ComputeEditDistance(input_op.toQualString(), op.first.toQualString(),
\* MAX_EDIT_DIST) for every pair the model can ask about, computed once
EditDistances ==
    { <<input_op, sym,
        ComputeEditDistance(Characters(toQualString(input_op)),
                            Characters(toQualString(sym)), MAX_EDIT_DIST)>> :
      input_op \in TargetSymbols,
      sym \in { fromQualString(d.schema.name) : d \in OperatorInputs } }

editDistance(input_op, sym) ==
    (CHOOSE e \in EditDistances : e[1] = input_op /\ e[2] = sym)[3]

RECURSIVE rankSymbols_NoCap(_, _, _, _)
rankSymbols_NoCap(input_op, order, i, rankings) ==
    IF i > Len(order) THEN rankings
    ELSE LET edit_dist == editDistance(input_op, order[i])
         IN  rankSymbols_NoCap(input_op, order, i + 1,
                               heapPush(rankings, <<edit_dist, order[i]>>))

RECURSIVE rankSymbols_Strict(_, _, _, _)
rankSymbols_Strict(input_op, order, i, rankings) ==
    IF i > Len(order) THEN rankings
    ELSE LET edit_dist == editDistance(input_op, order[i])
         IN  rankSymbols_Strict(input_op, order, i + 1,
                                IF edit_dist < MAX_EDIT_DIST
                                THEN heapPush(rankings, <<edit_dist, order[i]>>)
                                ELSE rankings)

\* the first loop of findSimilarOperators over the symbols order[i..]
RECURSIVE rankSymbols(_, _, _, _)
rankSymbols(input_op, order, i, rankings) ==
    IF i > Len(order) THEN rankings
    ELSE LET edit_dist == editDistance(input_op, order[i])
         IN  rankSymbols(input_op, order, i + 1,
                         IF edit_dist <= MAX_EDIT_DIST
                         THEN heapPush(rankings, <<edit_dist, order[i]>>)
                         ELSE rankings)

\* the second loop of findSimilarOperators: pop until the queue is empty
RECURSIVE drainRankings(_)
drainRankings(rankings) ==
    IF rankings = <<>> THEN <<>>
    ELSE <<rankings[1][2]>> \o drainRankings(heapPop(rankings))

\* the orders in which an unordered_map with these keys can be iterated
Orderings(keys) ==
    { order \in [1..Cardinality(keys) -> keys] :
        \A i, j \in 1..Cardinality(keys) : order[i] = order[j] => i = j }

Idle(t) == scan[t] = <<>>

\* some thread is not inside findOperatorFor and can make another call
SomeIdle == \E t \in Threads : Idle(t)

\* A thread that iterates a bucket outside the lock while a flush appends to
\* that bucket has a data race with the push_back.
scanAfterFlush(f) ==
    [t \in Threads |->
        IF scan[t] # <<>> /\ scan[t][1].in_map
           /\ f.operators[scan[t][1].sym] # operators[scan[t][1].sym]
        THEN <<[scan[t][1] EXCEPT !.raced = TRUE]>>
        ELSE scan[t]]

Init ==
    /\ ops = <<>>
    /\ to_register = <<>>
    /\ operators = Empty
    /\ operators_order = <<>>
    /\ operators_by_sig = Empty
    /\ operators_by_sig_literal = Empty
    /\ scan = [t \in Threads |-> <<>>]
    /\ last = [op |-> "none"]
    /\ first_hit = [l \in Literals |-> 0]

registerOperatorUpTo_Eager(op, capacity) ==
    /\ SomeIdle
    /\ registerOperatorCheck(op) = "ok"
    /\ Len(ops) < capacity
    /\ ops' = Append(ops, [schema |-> op.schema])
    /\ to_register' = Append(to_register, Len(ops) + 1)
    /\ operators_by_sig' = assignBySig(operators_by_sig,
                                       canonicalSchemaString(op.schema),
                                       Len(ops) + 1)
    /\ last' = [op |-> "registerOperator", arg |-> op, outcome |-> "ok",
                message |-> <<>>, before |-> to_register]
    /\ UNCHANGED <<operators, operators_order, operators_by_sig_literal,
                   scan, first_hit>>

\* registerOperator(Operator&&), the free function and the registry method,
\* while fewer than capacity operators have been registered
registerOperatorUpTo(op, capacity) ==
    /\ SomeIdle
    /\ LET check == registerOperatorCheck(op)
       IN  IF check = "ok"
           THEN /\ Len(ops) < capacity
                /\ ops' = Append(ops, [schema |-> op.schema])
                /\ to_register' = Append(to_register, Len(ops) + 1)
                /\ last' = [op |-> "registerOperator", arg |-> op,
                            outcome |-> "ok", message |-> <<>>,
                            before |-> to_register]
           ELSE /\ UNCHANGED <<ops, to_register>>
                /\ last' = [op |-> "registerOperator", arg |-> op,
                            outcome |-> check, message |-> op.schema.name,
                            before |-> to_register]
    /\ UNCHANGED <<operators, operators_order, operators_by_sig,
                   operators_by_sig_literal, scan, first_hit>>

RegisterOperator(op) == registerOperatorUpTo(op, MaxOps)

\* the flush at the head of every method of the registry that reads; an
\* insertion of a new symbol may rehash `operators` into any order
Flush(f) ==
    /\ to_register' = f.to_register
    /\ operators' = f.operators
    /\ operators_by_sig' = f.operators_by_sig
    /\ IF DOMAIN f.operators = DOMAIN operators
       THEN operators_order' = operators_order
       ELSE operators_order' \in Orderings(DOMAIN f.operators)

\* getAllOperatorsFor(Symbol) -> OperatorRegistry::getOperators
GetAllOperatorsFor(name) ==
    /\ SomeIdle
    /\ LET f == Flushed
       IN  /\ Flush(f)
           /\ scan' = scanAfterFlush(f)
           /\ last' = [op |-> "getAllOperatorsFor", arg |-> name,
                       drained |-> Len(to_register),
                       result |-> getOperatorsRef(f.operators, name).value]
    /\ UNCHANGED <<ops, operators_by_sig_literal, first_hit>>

\* findOperatorFor, up to the return of getOperators: the lock is released
\* and the thread holds a reference to the bucket
FindOperatorForGet(t, full_name) ==
    /\ Idle(t)
    /\ LET f    == Flushed
           name == fromQualString(full_name.name)
           ref  == getOperatorsRef(f.operators, name)
       IN  /\ Flush(f)
           /\ scan' = [scanAfterFlush(f) EXCEPT ![t] =
                         <<[sym |-> name,
                            overload_name |-> full_name.overload_name,
                            in_map |-> ref.in_map, seen |-> ref.value,
                            raced |-> FALSE]>>]
           /\ last' = [op |-> "findOperatorFor:getOperators", arg |-> name,
                       drained |-> Len(to_register),
                       result |-> ref.value]
    /\ UNCHANGED <<ops, operators_by_sig_literal, first_hit>>

\* what the loop of findOperatorFor can produce: the scan of the bucket, or,
\* after a racing push_back, any pointer, nullptr or a crash (-1)
scanOutcomes(s) ==
    IF s.raced THEN (-1 .. Len(ops))
    ELSE {scanBucket(ops, s.seen, 1, s.overload_name)}

\* findOperatorFor, the loop over the returned reference, outside the lock
FindOperatorForScan(t) ==
    /\ ~Idle(t)
    /\ \E r \in scanOutcomes(scan[t][1]) :
          last' = [op |-> "findOperatorFor", arg |-> scan[t][1].sym,
                   overload_name |-> scan[t][1].overload_name,
                   seen |-> scan[t][1].seen, raced |-> scan[t][1].raced,
                   result |-> r]
    /\ scan' = [scan EXCEPT ![t] = <<>>]
    /\ UNCHANGED <<ops, to_register, operators, operators_order,
                   operators_by_sig, operators_by_sig_literal, first_hit>>

\* getOperatorForLiteral(const char*) -> OperatorRegistry::lookupByLiteral
GetOperatorForLiteral(name) ==
    /\ SomeIdle
    /\ LET f == Flushed
           r == lookupByLiteral(operators_by_sig_literal, f.operators_by_sig,
                                name)
       IN  /\ Flush(f)
           /\ scan' = scanAfterFlush(f)
           /\ operators_by_sig_literal' = r.cache
           /\ last' = [op |-> "getOperatorForLiteral", arg |-> name,
                       drained |-> Len(to_register),
                       outcome |-> r.outcome, result |-> r.result,
                       message |-> IF r.outcome = "operator_not_found"
                                   THEN LiteralText(name) ELSE <<>>,
                       parser_called |-> r.parser_called,
                       by_sig_searched |-> r.by_sig_searched,
                       cache_before |-> operators_by_sig_literal,
                       prior |-> first_hit[name]]
           /\ first_hit' = IF r.outcome = "ok" /\ first_hit[name] = 0
                           THEN [first_hit EXCEPT ![name] = r.result]
                           ELSE first_hit
    /\ UNCHANGED ops

\* findSimilarOperators(Symbol) -> OperatorRegistry::findSimilarOperators
FindSimilarOperators(input_op) ==
    /\ SomeIdle
    /\ LET f == Flushed
       IN  /\ Flush(f)
           /\ scan' = scanAfterFlush(f)
           /\ last' = [op |-> "findSimilarOperators", arg |-> input_op,
                       drained |-> Len(to_register),
                       result |-> drainRankings(
                           rankSymbols(input_op, operators_order', 1, <<>>))]
    /\ UNCHANGED <<ops, operators_by_sig_literal, first_hit>>

\* getAllOperators() -> OperatorRegistry::getAllOperators
GetAllOperators ==
    /\ SomeIdle
    /\ LET f == Flushed
       IN  /\ Flush(f)
           /\ scan' = scanAfterFlush(f)
           /\ last' = [op |-> "getAllOperators",
                       drained |-> Len(to_register),
                       result |-> concatBuckets(f.operators, operators_order', 1)]
    /\ UNCHANGED <<ops, operators_by_sig_literal, first_hit>>

Next ==
    \/ \E op \in OperatorInputs : RegisterOperator(op)
    \/ \E name \in QuerySymbols : GetAllOperatorsFor(name)
    \/ \E t \in Threads, full_name \in OperatorNames :
          FindOperatorForGet(t, full_name)
    \/ \E t \in Threads : FindOperatorForScan(t)
    \/ \E name \in Literals : GetOperatorForLiteral(name)
    \/ \E input_op \in TargetSymbols : FindSimilarOperators(input_op)
    \/ GetAllOperators

Spec == Init /\ [][Next]_vars

-----------------------------------------------------------------------------
(* Enumeration of a registry of up to MaxEnumerated operators: registrations *)
(* under three symbols, interleaved with getAllOperatorsFor and             *)
(* getAllOperators                                                          *)

EnumeratedOperators ==
    { Operator(TensorAdd, "FROM_SCHEMA"),
      Operator(ScalarAdd, "FROM_SCHEMA"),
      Operator(Addr, "INTERNAL_SPECIAL_CASE"),
      Operator(Schema(<<"prim", "::", "Constant">>, "", <<>>, <<>>, TRUE),
               "INTERNAL_SPECIAL_CASE") }

RegisterEnumerated(op) == registerOperatorUpTo(op, MaxEnumerated)

NextEnumerate ==
    \/ \E op \in EnumeratedOperators : RegisterEnumerated(op)
    \/ \E name \in QuerySymbols : GetAllOperatorsFor(name)
    \/ GetAllOperators

SpecEnumerate == Init /\ [][NextEnumerate]_vars

-----------------------------------------------------------------------------
(* Canonical strings of schemas with every pattern of keyword-only arguments *)
(* up to MaxArgs arguments: the operators are registered and a read indexes  *)
(* them under canonicalSchemaString                                          *)

\* the argument lists <<Tensor 1, Tensor 2, ...>> with the kwarg_only flags
ArgumentLists ==
    UNION { { [k \in 1..n |-> Arg("Tensor", ToString(k), flags[k])] :
                flags \in [1..n -> BOOLEAN] } : n \in 0..MaxArgs }

CanonicalInputs ==
    { Operator(Schema(AddName, "", arguments, <<"Tensor">>, FALSE),
               "FROM_SCHEMA") : arguments \in ArgumentLists }

NextCanonical ==
    \/ \E op \in CanonicalInputs : RegisterOperator(op)
    \/ GetAllOperators

SpecCanonical == Init /\ [][NextCanonical]_vars

-----------------------------------------------------------------------------
(* Vocabulary of the properties *)

SymbolOf(i) == fromQualString(ops[i].schema.name)

SignatureOf(i) == canonicalSchemaString(ops[i].schema)

\* the operators registered so far under sym, in the order of their
\* registerOperator calls, from heap index i on
RECURSIVE RegisteredUnder(_, _)
RegisteredUnder(sym, i) ==
    IF i > Len(ops) THEN <<>>
    ELSE (IF SymbolOf(i) = sym THEN <<i>> ELSE <<>>) \o RegisteredUnder(sym, i + 1)

Range(seq) == { seq[i] : i \in 1..Len(seq) }

\* the latest registered operator with the canonical string sig, 0 if none
LatestWithSignature(sig) ==
    LET having == { i \in 1..Len(ops) : SignatureOf(i) = sig }
    IN  IF having = {} THEN 0 ELSE CHOOSE i \in having : \A j \in having : j <= i

\* every registered operator is in the bucket of its symbol and the canonical
\* index has an entry for its canonical string
AllIndexed ==
    \A i \in 1..Len(ops) :
        /\ SymbolOf(i) \in DOMAIN operators
        /\ i \in Range(operators[SymbolOf(i)])
        /\ SignatureOf(i) \in DOMAIN operators_by_sig

LockedReads ==
    {"getAllOperatorsFor", "findOperatorFor:getOperators",
     "getOperatorForLiteral", "findSimilarOperators", "getAllOperators"}

-----------------------------------------------------------------------------
C2_GetOperatorsInRegistrationOrder ==
    last.op = "getAllOperatorsFor" => last.result = RegisteredUnder(last.arg, 1)

\* two overloads returned, the first indexed by an earlier flush and the
\* second by this call
C2_Witness ==
    /\ last.op = "getAllOperatorsFor"
    /\ Len(last.result) = 2
    /\ last.drained = 1

(* C3: once getOperatorForLiteral has succeeded for an address, every later *)
(* call with that address succeeds with the same operator and calls neither *)
(* the parser nor the canonical-signature index.                            *)
C3_LiteralCacheHit ==
    (last.op = "getOperatorForLiteral" /\ last.prior # 0) =>
        /\ last.outcome = "ok"
        /\ last.result = last.prior
        /\ ~last.parser_called
        /\ ~last.by_sig_searched

\* a repeated lookup after another operator took over the canonical string
C3_Witness ==
    /\ last.op = "getOperatorForLiteral"
    /\ last.prior # 0
    /\ last.drained > 0
    /\ operators_by_sig[SignatureOf(last.prior)] # last.prior

\* what a full parse, canonicalize and lookup of the text at name returns
\* once the pending registrations are flushed; 0 if it fails
FullLookup(name) ==
    LET parsed == parseSchema(LiteralText(name))
        sig    == canonicalSchemaString(parsed.schema)
        by_sig == Flushed.operators_by_sig
    IN  IF parsed.ok /\ sig \in DOMAIN by_sig THEN by_sig[sig] ELSE 0

(* C4, as stated: every cached operator is the operator that a full lookup  *)
(* of the text would return, also after further operators with the same     *)
(* canonical signature have been registered.                                *)
C4_CacheEqualsFullLookup ==
    \A name \in DOMAIN operators_by_sig_literal :
        operators_by_sig_literal[name] = FullLookup(name)

(* C4, amended: every cached operator is a registered operator whose        *)
(* canonical string is that of the parsed text, and it is the operator a    *)
(* full lookup returns exactly when no operator with the same canonical     *)
(* string was registered after it; otherwise the full lookup returns the    *)
(* latest such operator and the cache keeps the earlier one.                *)
C4_CacheIsMemoOfEarlierLookup ==
    \A name \in DOMAIN operators_by_sig_literal :
        LET cached == operators_by_sig_literal[name]
            parsed == parseSchema(LiteralText(name))
            sig    == canonicalSchemaString(parsed.schema)
        IN  /\ cached \in 1..Len(ops)
            /\ parsed.ok
            /\ SignatureOf(cached) = sig
            /\ FullLookup(name) = LatestWithSignature(sig)
            /\ (cached = FullLookup(name)) <=>
                 ~ \E j \in (cached + 1)..Len(ops) : SignatureOf(j) = sig

\* a cached operator that a full lookup would no longer return
C4_Witness ==
    \E name \in DOMAIN operators_by_sig_literal :
        /\ FullLookup(name) # 0
        /\ operators_by_sig_literal[name] # FullLookup(name)

(* C5: a lookup of an uncached text whose canonical signature no registered *)
(* operator has ends in the "operator not found" error, which names the     *)
(* signature text, and leaves the cache as it was; the cache changes only   *)
(* by a successful lookup, which adds the entry for its address.            *)
C5_NotFoundLeavesCache ==
    last.op = "getOperatorForLiteral" =>
        LET parsed == parseSchema(LiteralText(last.arg))
            sig    == canonicalSchemaString(parsed.schema)
        IN  /\ (/\ last.arg \notin DOMAIN last.cache_before
                /\ parsed.ok
                /\ LatestWithSignature(sig) = 0)
               => /\ last.outcome = "operator_not_found"
                  /\ last.message = LiteralText(last.arg)
                  /\ operators_by_sig_literal = last.cache_before
            /\ operators_by_sig_literal # last.cache_before
               => /\ last.outcome = "ok"
                  /\ last.result \in 1..Len(ops)
                  /\ operators_by_sig_literal =
                       Put(last.cache_before, last.arg, last.result)

\* a failed lookup in a registry that holds operators and a cached literal
C5_Witness ==
    /\ last.op = "getOperatorForLiteral"
    /\ last.outcome = "operator_not_found"
    /\ Len(ops) > 0
    /\ last.drained > 0
    /\ operators_by_sig_literal # Empty

(* C6: registering a variadic-return operator whose symbol the printer has *)
(* no special case for raises the error that names the operator, and the    *)
(* operator is not enqueued: the heap, the pending queue, both indices and  *)
(* the literal cache stay as they were.                                     *)
C6_MissingPrinterCaseAborts ==
    [][\A op \in OperatorInputs :
          (/\ RegisterOperator(op)
           /\ op.schema.is_varret
           /\ ~printerHasSpecialCaseFor(fromQualString(op.schema.name)))
          => /\ last'.outcome = "missing_printer_case"
             /\ last'.message = op.schema.name
             /\ UNCHANGED <<ops, to_register, operators, operators_order,
                            operators_by_sig, operators_by_sig_literal>>]_vars

\* a rejected registration in a registry with pending and indexed operators
C6_Witness ==
    /\ last.op = "registerOperator"
    /\ last.arg.schema.is_varret
    /\ ~printerHasSpecialCaseFor(fromQualString(last.arg.schema.name))
    /\ last.outcome = "missing_printer_case"
    /\ to_register # <<>>
    /\ operators # Empty

(* C7: registering a variadic-return operator is rejected, and nothing is   *)
(* enqueued, when it is CONSERVATIVE and alias analysis has no special case *)
(* for its symbol, and when it is FROM_SCHEMA and alias analysis has one;   *)
(* with any other combination the alias-analysis checks raise nothing.      *)
C7_AliasAnalysisCheck ==
    (last.op = "registerOperator" /\ last.arg.schema.is_varret) =>
        LET s       == fromQualString(last.arg.schema.name)
            kind    == last.arg.aliasAnalysisKind
            special == aliasAnalysisHasSpecialCaseFor(s)
            missing  == kind = "CONSERVATIVE" /\ ~special
            explicit == kind = "FROM_SCHEMA" /\ special
        IN  /\ (missing \/ explicit) =>
                 /\ last.outcome # "ok"
                 /\ to_register = last.before
            /\ (missing /\ printerHasSpecialCaseFor(s)) =>
                 last.outcome = "missing_alias_case"
            /\ (explicit /\ printerHasSpecialCaseFor(s)) =>
                 last.outcome = "explicit_alias_on_special_case"
            /\ ~(missing \/ explicit) =>
                 last.outcome \in {"ok", "missing_printer_case"}
            /\ (~(missing \/ explicit) /\ printerHasSpecialCaseFor(s)) =>
                 /\ last.outcome = "ok"
                 /\ to_register = Append(last.before, Len(ops))

\* a FROM_SCHEMA operator on a symbol both tables know, rejected while
\* another operator is pending
C7_Witness ==
    /\ last.op = "registerOperator"
    /\ last.arg.schema.is_varret
    /\ last.arg.aliasAnalysisKind = "FROM_SCHEMA"
    /\ printerHasSpecialCaseFor(fromQualString(last.arg.schema.name))
    /\ aliasAnalysisHasSpecialCaseFor(fromQualString(last.arg.schema.name))
    /\ last.outcome = "explicit_alias_on_special_case"
    /\ to_register # <<>>

(* C8: registering an operator whose schema is not variadic-return never    *)
(* raises, whatever its symbol and alias-analysis kind, and appends exactly *)
(* one entry, the new operator, to the pending queue.                       *)
C8_SchematizedOperatorSkipsChecks ==
    (last.op = "registerOperator" /\ ~last.arg.schema.is_varret) =>
        /\ last.outcome = "ok"
        /\ Len(ops) > 0
        /\ to_register = Append(last.before, Len(ops))
        /\ ops[Len(ops)].schema = last.arg.schema
        /\ Len(ops) \notin Range(last.before)

\* a CONSERVATIVE schematized operator whose symbol is in neither table
C8_Witness ==
    /\ last.op = "registerOperator"
    /\ ~last.arg.schema.is_varret
    /\ last.arg.aliasAnalysisKind = "CONSERVATIVE"
    /\ ~printerHasSpecialCaseFor(fromQualString(last.arg.schema.name))
    /\ ~aliasAnalysisHasSpecialCaseFor(fromQualString(last.arg.schema.name))
    /\ last.outcome = "ok"
    /\ Len(to_register) = 2

(* C9, as stated: every access to a bucket of the by-symbol index happens   *)
(* under the registry lock, so no thread reads a bucket while the flush of  *)
(* another thread appends to it.                                            *)
C9_NoBucketReadDuringFlush ==
    \A t \in Threads : scan[t] # <<>> => ~scan[t][1].raced

\* the earliest operator of bucket with the overload name, 0 if none
EarliestWithOverload(bucket, overload_name) ==
    LET matching == { k \in 1..Len(bucket) :
                        ops[bucket[k]].schema.overload_name = overload_name }
    IN  IF matching = {} THEN 0
        ELSE bucket[CHOOSE k \in matching : \A j \in matching : k <= j]

(* C10, as stated: findOperatorFor returns the earliest-registered operator *)
(* of the bucket of the name whose overload name is the requested one, and  *)
(* nullptr when the bucket is empty or holds no such operator.              *)
C10_FindOperatorForEarliestMatch ==
    last.op = "findOperatorFor" =>
        last.result = EarliestWithOverload(last.seen, last.overload_name)

\* C10 holds of every findOperatorFor call whose loop no flush raced with
FindOperatorForWithoutRace ==
    (last.op = "findOperatorFor" /\ ~last.raced) =>
        last.result = EarliestWithOverload(last.seen, last.overload_name)

-----------------------------------------------------------------------------
\* the registered symbols, pending or indexed
RegisteredSymbols == { SymbolOf(i) : i \in 1..Len(ops) }

\* the edit distance without a cap, for every pair the model can ask about
TrueDistances ==
    { <<input_op, sym,
        ComputeEditDistance(Characters(toQualString(input_op)),
                            Characters(toQualString(sym)), 0)>> :
      input_op \in TargetSymbols,
      sym \in { fromQualString(d.schema.name) : d \in OperatorInputs } }

trueDistance(input_op, sym) ==
    (CHOOSE e \in TrueDistances : e[1] = input_op /\ e[2] = sym)[3]

(* C11: findSimilarOperators returns exactly the distinct registered        *)
(* symbols, those pending at the call included, whose edit distance to the  *)
(* target is at most 2, each once: none farther than 2, and the empty       *)
(* sequence when no registered symbol is that near.                         *)
C11_FindSimilarReturnsNearSymbols ==
    last.op = "findSimilarOperators" =>
        LET near == { sym \in RegisteredSymbols :
                        trueDistance(last.arg, sym) <= 2 }
        IN  /\ Range(last.result) = near
            /\ Len(last.result) = Cardinality(near)

\* a call that drained an operator and found symbols at distances 1 and 2
C11_Witness ==
    /\ last.op = "findSimilarOperators"
    /\ last.drained > 0
    /\ Len(last.result) = 2
    /\ \E sym \in Range(last.result) : trueDistance(last.arg, sym) = 2

C13_GetAllOperatorsEnumeratesOnce ==
    last.op = "getAllOperators" =>
        /\ to_register = <<>>
        /\ Len(last.result) = Len(ops)
        /\ Range(last.result) = 1..Len(ops)
        /\ \A i, j \in 1..Len(last.result) :
              (i < j /\ SymbolOf(last.result[i]) = SymbolOf(last.result[j])) =>
                  /\ last.result[i] < last.result[j]
                  /\ \A k \in i..j :
                        SymbolOf(last.result[k]) = SymbolOf(last.result[i])

\* three operators, the first and third of one symbol, the second of another,
\* the last still pending at the call
C13_Witness ==
    /\ last.op = "getAllOperators"
    /\ last.drained > 0
    /\ Len(last.result) = 3
    /\ SymbolOf(1) = SymbolOf(3)
    /\ SymbolOf(1) # SymbolOf(2)

\* the operators that a flush has taken out of the pending queue
IndexedOps == { i \in 1..Len(ops) : i \notin Range(to_register) }

\* the by-symbol index holds the operators in the set done, in the order of
\* registration, and nothing else
BySymbolIndexOf(done) ==
    /\ DOMAIN operators = { SymbolOf(i) : i \in done }
    /\ \A sym \in DOMAIN operators :
          operators[sym] = SelectSeq(RegisteredUnder(sym, 1),
                                     LAMBDA i : i \in done)

\* the canonical index maps each canonical string of an operator in the set
\* done to the latest such operator, and nothing else
BySignatureIndexOf(done) ==
    /\ DOMAIN operators_by_sig = { SignatureOf(i) : i \in done }
    /\ \A sig \in DOMAIN operators_by_sig :
          LET having == { i \in done : SignatureOf(i) = sig }
          IN  /\ operators_by_sig[sig] \in having
              /\ \A i \in having : i <= operators_by_sig[sig]

(* C14: the flush does not depend on the read that triggers it: the two     *)
(* indices are determined by the registrations drained so far, whichever    *)
(* reads drained them and in whichever order, and a read that finds the     *)
(* pending queue empty changes neither index.                               *)
C14_FlushIndependentOfRead ==
    /\ [](BySymbolIndexOf(IndexedOps) /\ BySignatureIndexOf(IndexedOps))
    /\ [][(to_register = <<>> /\ last'.op \in LockedReads)
           => UNCHANGED <<operators, operators_by_sig>>]_vars

\* a read with nothing to drain, after two operators with one canonical
\* string were drained by an earlier read
C14_Witness ==
    /\ last.op \in LockedReads
    /\ last.drained = 0
    /\ Len(ops) = 2
    /\ SignatureOf(1) = SignatureOf(2)
    /\ to_register = <<>>

(* C15: a successful registerOperator only appends the operator to the end  *)
(* of the pending queue; the by-symbol index, the canonical index and the   *)
(* literal cache stay as they are, so no canonical string of the operator   *)
(* is computed before a read runs.                                          *)
C15_RegisterOnlyEnqueues ==
    [][(last'.op = "registerOperator" /\ Len(ops') = Len(ops) + 1)
       => /\ last'.outcome = "ok"
          /\ SubSeq(ops', 1, Len(ops)) = ops
          /\ ops'[Len(ops')].schema = last'.arg.schema
          /\ to_register' = Append(to_register, Len(ops'))
          /\ UNCHANGED <<operators, operators_by_sig,
                         operators_by_sig_literal>>]_vars

\* a variadic-return operator registered on a registry whose indices and
\* cache are populated; its canonical string is in no index
C15_Witness ==
    /\ last.op = "registerOperator"
    /\ last.outcome = "ok"
    /\ last.arg.schema.is_varret
    /\ operators # Empty
    /\ operators_by_sig_literal # Empty
    /\ SignatureOf(Len(ops)) \notin DOMAIN operators_by_sig

\* a getOperatorForLiteral call that missed the cache and whose text the
\* parser rejected
ParserFailed ==
    /\ last.op = "getOperatorForLiteral"
    /\ last.parser_called
    /\ ~parseSchema(LiteralText(last.arg)).ok

(* C16, as stated: when parseSchema fails on the text given to              *)
(* getOperatorForLiteral, the call ends in the "Couldn't find an operator"  *)
(* report for that text, and no cache entry is inserted.                    *)
C16_ParseFailureReportedAsNotFound ==
    ParserFailed =>
        /\ last.outcome = "operator_not_found"
        /\ last.message = LiteralText(last.arg)
        /\ operators_by_sig_literal = last.cache_before

\* what the code does on a parse failure: the error of the parser leaves
\* lookupByLiteral as it is, before the index is searched, and the cache stays
ParseFailurePropagates ==
    ParserFailed =>
        /\ last.outcome = "parse_error"
        /\ ~last.by_sig_searched
        /\ operators_by_sig_literal = last.cache_before

(* C17, as stated: with aten::add registered,                               *)
(* findSimilarOperators(notaten::add) returns a sequence that contains      *)
(* aten::add.                                                               *)
C17_NotatenAddFindsAtenAdd ==
    (/\ last.op = "findSimilarOperators"
     /\ last.arg = Sym("notaten", "add")
     /\ Sym("aten", "add") \in RegisteredSymbols)
    => Sym("aten", "add") \in Range(last.result)

(* C17, amended: with aten::add registered,                                 *)
(* findSimilarOperators(notaten::add) returns a sequence without aten::add, *)
(* which is at distance 3, and findSimilarOperators(aten::addx), at         *)
(* distance 1, returns a sequence that contains aten::add.                  *)
C17_AtenAddxFindsAtenAdd ==
    (/\ last.op = "findSimilarOperators"
     /\ Sym("aten", "add") \in RegisteredSymbols)
    => /\ last.arg = Sym("notaten", "add") =>
             /\ Sym("aten", "add") \notin Range(last.result)
             /\ trueDistance(last.arg, Sym("aten", "add")) = 3
       /\ last.arg = Sym("aten", "addx") =>
             /\ Sym("aten", "add") \in Range(last.result)
             /\ trueDistance(last.arg, Sym("aten", "add")) = 1

\* the call of the example on a registry that holds aten::add and aten::addr
C17_Witness ==
    /\ last.op = "findSimilarOperators"
    /\ last.arg = Sym("notaten", "add")
    /\ RegisteredSymbols = {Sym("aten", "add"), Sym("aten", "addr")}
    /\ last.result = <<>>

(* C18: after a flush the canonical index maps each canonical string to the *)
(* operator registered last with that string, overloads that differ in the  *)
(* overload name only included, and getOperatorForLiteral on a text that is *)
(* not in the cache returns that operator.                                  *)
C18_CanonicalIndexKeepsLatest ==
    /\ to_register = <<>> =>
          /\ DOMAIN operators_by_sig = { SignatureOf(i) : i \in 1..Len(ops) }
          /\ \A sig \in DOMAIN operators_by_sig :
                operators_by_sig[sig] = LatestWithSignature(sig)
    /\ (/\ last.op = "getOperatorForLiteral"
         /\ last.outcome = "ok"
         /\ last.parser_called)
        => last.result =
             LatestWithSignature(
                 canonicalSchemaString(parseSchema(LiteralText(last.arg)).schema))

\* a lookup that missed the cache after two overloads with one canonical
\* string were registered: it returns the second
C18_Witness ==
    /\ last.op = "getOperatorForLiteral"
    /\ last.outcome = "ok"
    /\ last.parser_called
    /\ Len(ops) = 2
    /\ SignatureOf(1) = SignatureOf(2)
    /\ ops[1].schema.overload_name # ops[2].schema.overload_name
    /\ last.result = 2

\* the places of the marker in a canonical string
Markers(sig) == { p \in 1..Len(sig) : sig[p] = "*, " }

\* the arguments written before place p of a canonical string: each
\* argument is written with one " " between its type and its name
ArgumentsBefore(sig, p) == Cardinality({ q \in 1..(p - 1) : sig[q] = " " })

(* C19: canonicalSchemaString writes the marker "*, " once, right before    *)
(* the first keyword-only argument, when the schema has one, and writes no  *)
(* marker when it has none; so also when the first argument is keyword-only *)
(* and when positional arguments follow a keyword-only one.                 *)
C19_MarkerOnceBeforeFirstKwargOnly ==
    \A sig \in DOMAIN operators_by_sig :
        LET arguments == ops[operators_by_sig[sig]].schema.arguments
            kwarg_only == { k \in 1..Len(arguments) : arguments[k].kwarg_only }
        IN  IF kwarg_only = {} THEN Markers(sig) = {}
            ELSE LET first == CHOOSE k \in kwarg_only :
                                  \A j \in kwarg_only : k <= j
                 IN  /\ Cardinality(Markers(sig)) = 1
                     /\ \A p \in Markers(sig) :
                           /\ ArgumentsBefore(sig, p) = first - 1
                           /\ p + 3 <= Len(sig)
                           /\ sig[p + 1] = arguments[first].type
                           /\ sig[p + 2] = " "
                           /\ sig[p + 3] = arguments[first].name

\* an indexed schema of three arguments, keyword-only, positional,
\* keyword-only
C19_Witness ==
    \E sig \in DOMAIN operators_by_sig :
        LET arguments == ops[operators_by_sig[sig]].schema.arguments
        IN  /\ Len(arguments) = 3
            /\ arguments[1].kwarg_only
            /\ ~arguments[2].kwarg_only
            /\ arguments[3].kwarg_only

\* how often operator i occurs in a sequence of operators
Occurrences(seq, i) == Cardinality({ k \in 1..Len(seq) : seq[k] = i })

\* the operators held by the by-symbol index
InBuckets == UNION { Range(operators[sym]) : sym \in DOMAIN operators }

(* C20: no registered operator is lost, duplicated or removed: each is once *)
(* in the pending queue or once in the bucket of its own symbol, never in   *)
(* both and in no other bucket; a bucket only grows at its end; and every   *)
(* operator held by the canonical index or the literal cache is in the      *)
(* by-symbol index.                                                         *)
C20_OperatorsNeverLost ==
    /\ [](/\ \A i \in 1..Len(ops) :
                /\ Occurrences(to_register, i)
                     + (IF SymbolOf(i) \in DOMAIN operators
                        THEN Occurrences(operators[SymbolOf(i)], i) ELSE 0) = 1
                /\ \A sym \in DOMAIN operators :
                      sym # SymbolOf(i) => i \notin Range(operators[sym])
           /\ InBuckets \cup Range(to_register) = 1..Len(ops)
           /\ \A sig \in DOMAIN operators_by_sig :
                 operators_by_sig[sig] \in InBuckets
           /\ \A name \in DOMAIN operators_by_sig_literal :
                 operators_by_sig_literal[name] \in InBuckets)
    /\ [][/\ Len(ops) <= Len(ops')
           /\ SubSeq(ops', 1, Len(ops)) = ops
           /\ \A sym \in DOMAIN operators :
                 /\ sym \in DOMAIN operators'
                 /\ Len(operators[sym]) <= Len(operators'[sym])
                 /\ SubSeq(operators'[sym], 1, Len(operators[sym]))
                      = operators[sym]]_vars

\* two operators of one symbol, the first in its bucket, in the canonical
\* index and in the cache, the second still pending
C20_Witness ==
    /\ Len(ops) = 2
    /\ SymbolOf(1) = SymbolOf(2)
    /\ to_register = <<2>>
    /\ operators[SymbolOf(1)] = <<1>>
    /\ operators_by_sig_literal # Empty

====
